---------------------------- MODULE Spec2Model ----------------------------
(***************************************************************************)
(* FlipEx: a Telegram bot that exchanges a small amount of BTC, ETH, SOL,  *)
(* TON or NOT into USDT through the Crypto Pay gateway (src/main.py).      *)
(*                                                                         *)
(* The model covers the rate cache (ExchangeRateCache), the amount         *)
(* validator (validate_exchange_amount), the commission computation of     *)
(* process_amount, the aiogram conversation (FSM state + data dictionary), *)
(* the SQLite table "exchanges" and the gateway's invoices and checks.     *)
(*                                                                         *)
(* Money is Python float (IEEE-754 binary64) in the source.  The model     *)
(* computes with binary64 values as well: a value is a record              *)
(*     [sg |-> sign, e |-> exponent, m |-> mantissa]                       *)
(* that stands for sg * m * 2^e with 2^52 <= m < 2^53; the mantissa is a   *)
(* sequence of four limbs in base 2^14, least significant first, because   *)
(* TLC integers are 32 bits wide.  Every operation rounds to nearest, ties *)
(* to even, as the hardware does.  Subnormals, infinities and NaN are out  *)
(* of the range of the amounts and rates handled here.                     *)
(***************************************************************************)
EXTENDS Integers, Sequences, FiniteSets, TLC

(***************************************************************************)
(* Unbounded naturals as limb sequences (base 2^14, little endian).        *)
(***************************************************************************)
LimbBits == 14
LimbBase == 16384
MantBits == 53

Pow2(n) == 2 ^ n

RECURSIVE BTrim(_)
BTrim(x) ==
    IF Len(x) > 0 /\ x[Len(x)] = 0 THEN BTrim(SubSeq(x, 1, Len(x) - 1)) ELSE x

BLimb(x, i) == IF i >= 1 /\ i <= Len(x) THEN x[i] ELSE 0

RECURSIVE IntBitLen(_)
IntBitLen(n) == IF n = 0 THEN 0 ELSE 1 + IntBitLen(n \div 2)

\* bit length of a sequence without leading zero limbs
TrimmedBitLen(t) ==
    IF Len(t) = 0 THEN 0 ELSE (Len(t) - 1) * LimbBits + IntBitLen(t[Len(t)])

BBitLen(x) == TrimmedBitLen(BTrim(x))

RECURSIVE BFromInt(_)
BFromInt(n) == IF n = 0 THEN << >> ELSE <<n % LimbBase>> \o BFromInt(n \div LimbBase)

BBit(x, k) == (BLimb(x, (k \div LimbBits) + 1) \div Pow2(k % LimbBits)) % 2

\* TRUE iff the n low bits of x are all zero
BLowZero(x, n) ==
    /\ \A i \in 1..(n \div LimbBits) : BLimb(x, i) = 0
    /\ BLimb(x, (n \div LimbBits) + 1) % Pow2(n % LimbBits) = 0

\* floor(x / 2^n)
BShr(x, n) ==
    LET q == n \div LimbBits
        r == n % LimbBits
        len == IF Len(x) > q THEN Len(x) - q ELSE 0
    IN  BTrim([i \in 1..len |->
                  (BLimb(x, i + q) \div Pow2(r))
                  + (BLimb(x, i + q + 1) % Pow2(r)) * Pow2(LimbBits - r)])

\* x * 2^n
BShl(x, n) ==
    LET q == n \div LimbBits
        r == n % LimbBits
        len == Len(x) + q + 1
    IN  BTrim([i \in 1..len |->
                  IF i <= q THEN 0
                  ELSE (BLimb(x, i - q) % Pow2(LimbBits - r)) * Pow2(r)
                       + (BLimb(x, i - q - 1) \div Pow2(LimbBits - r))])

\* carry propagation over column sums (each below 2^30)
RECURSIVE BCarry(_, _, _)
BCarry(cols, i, c) ==
    IF i > Len(cols)
    THEN (IF c = 0 THEN << >> ELSE BFromInt(c))
    ELSE <<(cols[i] + c) % LimbBase>> \o BCarry(cols, i + 1, (cols[i] + c) \div LimbBase)

BAdd(x, y) ==
    LET len == IF Len(x) > Len(y) THEN Len(x) ELSE Len(y)
    IN  BTrim(BCarry([i \in 1..len |-> BLimb(x, i) + BLimb(y, i)], 1, 0))

\* x - y for x >= y
RECURSIVE BBorrow(_, _, _, _)
BBorrow(x, y, i, b) ==
    IF i > Len(x) THEN << >>
    ELSE LET d == BLimb(x, i) - BLimb(y, i) - b
         IN  IF d < 0 THEN <<d + LimbBase>> \o BBorrow(x, y, i + 1, 1)
                      ELSE <<d>> \o BBorrow(x, y, i + 1, 0)

BSub(x, y) == BTrim(BBorrow(x, y, 1, 0))

RECURSIVE BColumn(_, _, _, _)
BColumn(x, y, k, i) ==
    IF i > Len(x) THEN 0
    ELSE BLimb(x, i) * BLimb(y, k + 1 - i) + BColumn(x, y, k, i + 1)

\* x * y for operands of at most four limbs each
BMul(x, y) ==
    BTrim(BCarry([k \in 1..(Len(x) + Len(y)) |-> BColumn(x, y, k, 1)], 1, 0))

\* -1, 0, 1 as x <, =, > y
RECURSIVE BCmpFrom(_, _, _)
BCmpFrom(x, y, i) ==
    IF i = 0 THEN 0
    ELSE IF BLimb(x, i) < BLimb(y, i) THEN -1
    ELSE IF BLimb(x, i) > BLimb(y, i) THEN 1
    ELSE BCmpFrom(x, y, i - 1)

BCmp(x, y) == BCmpFrom(x, y, IF Len(x) > Len(y) THEN Len(x) ELSE Len(y))

\* quotient and remainder of x by a divisor below 2^17
RECURSIVE BDivFrom(_, _, _, _)
BDivFrom(x, d, i, rem) ==
    IF i = 0 THEN [q |-> << >>, r |-> rem]
    ELSE LET cur == rem * LimbBase + x[i]
             rest == BDivFrom(x, d, i - 1, cur % d)
         IN  [q |-> rest.q \o <<cur \div d>>, r |-> rest.r]

BDivSmall(x, d) ==
    LET res == BDivFrom(x, d, Len(x), 0)
    IN  [q |-> BTrim(res.q), r |-> res.r]

(***************************************************************************)
(* binary64 values.                                                        *)
(***************************************************************************)
FZero == [sg |-> 0, e |-> 0, m |-> <<0, 0, 0, 0>>]

Pad4(x) == [i \in 1..4 |-> BLimb(x, i)]

\* the quotient q = floor(n / 2^sh) rounded to nearest, ties to even
RoundQuotient(q, n, sh) ==
    IF BBit(n, sh - 1) = 1 /\ (~BLowZero(n, sh - 1) \/ BBit(q, 0) = 1)
    THEN BAdd(q, <<1>>)
    ELSE q

\* sg * q * 2^e for q of 53 bits, or of 54 bits after a carry of the rounding
FPack(sg, q, e) ==
    IF BBitLen(q) > MantBits
    THEN [sg |-> sg, e |-> e + 1, m |-> Pad4(BShr(q, 1))]
    ELSE [sg |-> sg, e |-> e, m |-> Pad4(q)]

\* FRound for n of bit length len
FRoundLen(sg, n, e, len) ==
    IF len = 0 \/ sg = 0 THEN FZero
    ELSE IF len <= MantBits
    THEN [sg |-> sg, e |-> e - (MantBits - len), m |-> Pad4(BShl(n, MantBits - len))]
    ELSE FPack(sg, RoundQuotient(BShr(n, len - MantBits), n, len - MantBits),
               e + (len - MantBits))

\* the binary64 nearest to sg * n * 2^e (n a limb sequence), ties to even
FRound(sg, n, e) == FRoundLen(sg, n, e, BBitLen(n))

\* the binary64 nearest to (dv.q + fraction) * 2^(-s), where the fraction is
\* non-zero iff dv.r is
FromQuotient(sg, dv, s) ==
    FRound(sg, BAdd(BShl(dv.q, 1), IF dv.r = 0 THEN << >> ELSE <<1>>), 0 - s - 1)

\* FromDecimal with the divisor d = 10^k and the scaling 2^s
FromScaled(sg, n, d, s) == FromQuotient(sg, BDivSmall(BShl(BFromInt(n), s), d), s)

\* float("<sg><n>e-<k>") for 0 <= n < 2^31 and 0 <= k <= 5: the binary64
\* nearest to n / 10^k
FromDecimal(sg, n, k) ==
    IF n = 0 THEN FZero
    ELSE FromScaled(sg, n, 10 ^ k, 58 + IntBitLen(10 ^ k) - IntBitLen(n))

Dec(n, k) == FromDecimal(1, n, k)

\* x * y
FMul(x, y) ==
    IF x.sg = 0 \/ y.sg = 0 THEN FZero
    ELSE FRound(x.sg * y.sg, BMul(x.m, y.m), x.e + y.e)

\* -1, 0, 1 as |x| <, =, > |y| for non-zero x, y
FCmpAbs(x, y) ==
    IF x.e # y.e THEN (IF x.e < y.e THEN -1 ELSE 1) ELSE BCmp(x.m, y.m)

\* -1, 0, 1 as x <, =, > y
FCmp(x, y) ==
    IF x.sg # y.sg THEN (IF x.sg < y.sg THEN -1 ELSE 1)
    ELSE IF x.sg = 0 THEN 0
    ELSE x.sg * FCmpAbs(x, y)

FLt(x, y) == FCmp(x, y) < 0
FLe(x, y) == FCmp(x, y) <= 0
FGt(x, y) == FCmp(x, y) > 0

FNeg(x) == [x EXCEPT !.sg = 0 - x.sg]

\* |x| + |y| and |x| - |y| (for |x| >= |y|) of non-zero x, y with the sign sg;
\* an operand more than 56 binary places below the other cannot change the
\* rounded result
FMagnitude(sg, x, y, plus) ==
    IF x.e - y.e > 56 THEN [x EXCEPT !.sg = sg]
    ELSE IF plus THEN FRound(sg, BAdd(BShl(x.m, x.e - y.e), y.m), y.e)
    ELSE FRound(sg, BSub(BShl(x.m, x.e - y.e), y.m), y.e)

\* x + y for non-zero x, y with |x| >= |y|
FAddOrdered(x, y) ==
    IF x.sg = y.sg THEN FMagnitude(x.sg, x, y, TRUE)
    ELSE IF FCmpAbs(x, y) = 0 THEN FZero
    ELSE FMagnitude(x.sg, x, y, FALSE)

\* x + y
FAdd(x, y) ==
    IF x.sg = 0 THEN y
    ELSE IF y.sg = 0 THEN x
    ELSE IF FCmpAbs(x, y) >= 0 THEN FAddOrdered(x, y)
    ELSE FAddOrdered(y, x)

\* x - y
FSub(x, y) == FAdd(x, FNeg(y))

\* Python truthiness of a float: 0.0 is false
Truthy(x) == x.sg # 0


(***************************************************************************)
(* Configuration (src/main.py:51-63) and the inputs of the model.          *)
(***************************************************************************)
USDT_MAX_LIMIT == Dec(5, 1)
COMMISSION_RATE == Dec(5, 2)
MIN_USDT_AMOUNT == Dec(1, 2)
CRYPTO_ASSETS == {"BTC", "ETH", "SOL", "TON", "NOT"}

\* ExchangeRateCache.duration, seconds
duration == 300

\* the fixed rates of test mode
test_rates ==
    [c \in {"BTC", "ETH", "TON", "SOL", "NOT"} |->
        CASE c = "BTC" -> Dec(30000, 0)
          [] c = "ETH" -> Dec(2000, 0)
          [] c = "TON" -> Dec(2, 0)
          [] c = "SOL" -> Dec(100, 0)
          [] c = "NOT" -> Dec(6, 3)]

\* Python None where a float is expected; it is falsy like 0.0 and differs
\* from every float
None == [sg |-> 0, e |-> 1, m |-> <<0, 0, 0, 0>>]

\* bounds of the model
MaxInvoices == 2
MaxChecks == 2
\* invoices created while two handlers of the chat are in progress at once
ConcInvoices == 1
MaxTime == 451
\* the clock advances in steps of half the cache lifetime
TickStep == 150

\* what get_exchange_rates() of the gateway can answer: "down" raises, the
\* other answers are lists of (source, target, rate); the rate None stands
\* for a rate that float() refuses (the only entry of "t3")
RateTable(s) ==
    IF s = "t1"
    THEN [k \in {<<"TON", "USDT">>, <<"BTC", "USDT">>, <<"NOT", "TON">>} |->
            CASE k = <<"TON", "USDT">> -> Dec(2, 0)
              [] k = <<"BTC", "USDT">> -> Dec(30000, 0)
              [] k = <<"NOT", "TON">> -> Dec(3, 3)]
    ELSE IF s = "t3"
    THEN [k \in {<<"TON", "USDT">>} |-> None]
    ELSE [k \in {<<"TON", "USDT">>} |-> Dec(25, 1)]

Sources == {"down", "t1", "t2", "t3"}

\* the price source during a conversation: it answers or it is down
Outages == {"t1", "down"}

\* callback data from_currency:<code>; "XXX" is not a configured asset
Codes == {"TON", "XXX"}

\* message texts: a decimal literal [sg, n, k] reads sg * n / 10^k, NoNumber
\* is a text without any digit
NoNumber == [sg |-> 0, n |-> 0, k |-> 9]
Lit(sg, n, k) == [sg |-> sg, n |-> n, k |-> k]
Texts == {NoNumber, Lit(1, 0, 0), Lit(1, 1, 1), Lit(1, 2, 1), Lit(1, 5, 1)}

\* the message texts of the interleaved conversation: "0.1" and "0.5"
ConcTexts == {Lit(1, 1, 1), Lit(1, 5, 1)}

\* the currency button of the interleaved conversation
ConcCodes == {"TON"}

\* message texts around the limits at the rates 2.0 and 2.5: "-0.1", "0.5",
\* "0.25", "0.25001", "0.2", "0.20001", "0.007", "0.005", "0.00499", "0.004",
\* "0.00399"
CalcTexts ==
    Texts \cup {Lit(-1, 1, 1), Lit(1, 25, 2), Lit(1, 25001, 5), Lit(1, 20001, 5), Lit(1, 7, 3),
                Lit(1, 5, 3), Lit(1, 499, 5), Lit(1, 4, 3), Lit(1, 399, 5)}

VARIABLES
    fsm_state,      \* aiogram FSM state of the user's chat; "none" is None
    data,           \* aiogram FSM data dictionary of the chat
    exchanges,      \* rows of table exchanges, row id = position
    invoices,       \* invoices at the gateway, invoice_id = position
    checks,         \* checks issued by the gateway, check_id = position
    cache,          \* rate_cache.cache
    cache_expiry,   \* rate_cache.cache_expiry; 0 is None
    now,            \* datetime.now().timestamp(), seconds
    source,         \* current answer of the external price source
    USE_TESTNET,    \* the environment setting, fixed at start
    reply,          \* what the last handler answered to the user
    cp,             \* the handlers of the chat that wait for a call to return
    shown,          \* the rates the last /rates answer listed (None: not available)
    answer,         \* outcome of the last get_rate call made on its own
    rq              \* get_rate calls of the users, suspended at the await or not

vars == <<fsm_state, data, exchanges, invoices, checks, cache, cache_expiry,
          now, source, USE_TESTNET, reply, cp, shown, answer, rq>>

Handlers == {1, 2}

\* the users whose get_rate calls interleave
Readers == {1, 2}

\* the frame of a get_rate call: where it waits, the currency asked for, the
\* answer of the source it is storing and the number of entries stored
NoCall == [pc |-> "idle", from_currency |-> "USDT", rates |-> "down", step |-> 0]

EmptyData == [f \in {} |-> 0]
\* the frame of a slot that no handler uses
Idle == [pc |-> "idle", id |-> 0, invoice_id |-> 0, amount |-> FZero, from_currency |-> "",
         d |-> EmptyData]

\* dict.update
update_data(d, upd) ==
    [f \in (DOMAIN d) \cup (DOMAIN upd) |-> IF f \in DOMAIN upd THEN upd[f] ELSE d[f]]

\* the state after start-up, whatever the environment
Start ==
    /\ fsm_state = "none"
    /\ data = EmptyData
    /\ exchanges = << >>
    /\ invoices = << >>
    /\ checks = << >>
    /\ cache = [k \in {} |-> FZero]
    /\ cache_expiry = 0
    /\ now = 1
    /\ reply = "none"
    /\ cp = [h \in Handlers |-> Idle]
    /\ shown = [c \in CRYPTO_ASSETS |-> None]
    /\ answer = [rate |-> None, fetched |-> FALSE, fault |-> FALSE]
    /\ rq = [u \in Readers |-> NoCall]

\* start-up in production mode with the price source answering
Init ==
    /\ Start
    /\ source = "t1"
    /\ USE_TESTNET = FALSE

\* start-up in any mode with the price source in any condition
InitEnv ==
    /\ Start
    /\ source \in Sources
    /\ USE_TESTNET \in BOOLEAN

(***************************************************************************)
(* Price oracle cache.  An oracle state is [cache, cache_expiry].          *)
(***************************************************************************)
(* fetched tells whether get_exchange_rates() was called since the record   *)
(* was taken from the variables, fault whether an exception left the       *)
(* oracle.                                                                 *)
Oracle == [cache |-> cache, cache_expiry |-> cache_expiry, fetched |-> FALSE, fault |-> FALSE]

\* the entries of a rate list that _update_cache stores: those float() accepts
parsed(rates) == [k \in {x \in DOMAIN rates : rates[x] # None} |-> rates[k]]

\* _update_cache without its except clause
update_cache_uncaught(o) ==
    IF source = "down" THEN [o EXCEPT !.fetched = TRUE, !.fault = TRUE]
    ELSE [cache |-> parsed(RateTable(source)), cache_expiry |-> now + duration,
          fetched |-> TRUE, fault |-> o.fault]

\* _update_cache that empties the cache before it asks the source
update_cache_clearing(o) ==
    IF source = "down" THEN [o EXCEPT !.cache = <<>>, !.fetched = TRUE]
    ELSE [cache |-> parsed(RateTable(source)), cache_expiry |-> now + duration,
          fetched |-> TRUE, fault |-> o.fault]

\* _update_cache that asks the source and stores nothing
update_cache_dropping(o) == [o EXCEPT !.fetched = TRUE]

\* ExchangeRateCache._update_cache from the answer of get_exchange_rates() on:
\* a failure of the source is logged and leaves the cache as it is
update_cache(o) ==
    IF source = "down" THEN [o EXCEPT !.fetched = TRUE]
    ELSE [cache |-> parsed(RateTable(source)), cache_expiry |-> now + duration,
          fetched |-> TRUE, fault |-> o.fault]

\* the lookup part of get_rate: direct, through BTC, through TON
lookup_rate(c, from_currency, to_currency) ==
    IF <<from_currency, to_currency>> \in DOMAIN c
    THEN c[<<from_currency, to_currency>>]
    ELSE IF <<from_currency, "BTC">> \in DOMAIN c /\ <<"BTC", to_currency>> \in DOMAIN c
    THEN FMul(c[<<from_currency, "BTC">>], c[<<"BTC", to_currency>>])
    ELSE IF <<from_currency, "TON">> \in DOMAIN c /\ <<"TON", to_currency>> \in DOMAIN c
    THEN FMul(c[<<from_currency, "TON">>], c[<<"TON", to_currency>>])
    ELSE None

\* needs_update that takes the instant of expiry for expired
needs_update_at_expiry(o) ==
    o.cache_expiry = 0 \/ now >= o.cache_expiry \/ DOMAIN o.cache = {}

\* the refresh condition of get_rate
needs_update(o) ==
    o.cache_expiry = 0 \/ now > o.cache_expiry \/ DOMAIN o.cache = {}

\* the codes get_rate is asked for: the assets and the target currency
RateCodes == CRYPTO_ASSETS \cup {"USDT"}

(***************************************************************************)
(* get_rate as a coroutine.  The only await of get_rate and _update_cache  *)
(* is the call of get_exchange_rates(); the get_rate calls of other users  *)
(* and the handlers of this chat can run while a call waits there.         *)
(***************************************************************************)
\* the order in which the answer s of the source lists its rates
rate_list(s) ==
    IF s = "t1" THEN <<(<<"TON", "USDT">>), (<<"BTC", "USDT">>), (<<"NOT", "TON">>)>>
    ELSE <<(<<"TON", "USDT">>)>>

\* the cache c after the loop of _update_cache has handled entries a+1..b of
\* the answer s: self.cache[key] = float(rate.rate), skipped when float() refuses
store(c, s, a, b) ==
    [k \in DOMAIN c \cup ({rate_list(s)[i] : i \in (a + 1)..b} \cap DOMAIN parsed(RateTable(s))) |->
        IF k \in {rate_list(s)[i] : i \in (a + 1)..b} THEN RateTable(s)[k] ELSE c[k]]

\* a fill loop that lets other coroutines run after each entry but the last
fill_yields_each(n) == 1..(n - 1)

\* the numbers of stored entries, of n, after which the fill loop of
\* _update_cache gives control to other coroutines: it has no await
fill_yields(n) == {}

\* get_rate of user u up to its first await, or to its return when the cache
\* needs no refresh
get_rate_begin(u, from_currency) ==
    /\ rq[u].pc = "idle"
    /\ IF needs_update(Oracle)
       THEN /\ rq' = [rq EXCEPT ![u] = [NoCall EXCEPT !.pc = "fetching",
                                                      !.from_currency = from_currency]]
            /\ UNCHANGED answer
       ELSE /\ answer' = [rate |-> lookup_rate(cache, from_currency, "USDT"),
                          fetched |-> FALSE, fault |-> FALSE]
            /\ UNCHANGED rq
    /\ UNCHANGED <<fsm_state, data, exchanges, invoices, checks, cache, cache_expiry, now,
                   source, USE_TESTNET, reply, cp, shown>>

\* the rest of the call once the source has answered: clear, fill entries
\* first+1..last of answer s, and with the last entry set the expiry, look
\* the rate up and return
get_rate_fill(u, s, first, last) ==
    /\ cache' = store(IF first = 0 THEN << >> ELSE cache, s, first, last)
    /\ IF last < Len(rate_list(s))
       THEN /\ rq' = [rq EXCEPT ![u] = [rq[u] EXCEPT !.pc = "filling", !.rates = s,
                                                     !.step = last]]
            /\ UNCHANGED <<cache_expiry, answer>>
       ELSE /\ cache_expiry' = now + duration
            /\ answer' = [rate |-> lookup_rate(cache', rq[u].from_currency, "USDT"),
                          fetched |-> TRUE, fault |-> FALSE]
            /\ rq' = [rq EXCEPT ![u] = NoCall]

\* the rest of the call once the source has failed: the cache as it is
get_rate_failed(u, o) ==
    /\ cache' = o.cache
    /\ cache_expiry' = o.cache_expiry
    /\ answer' = [rate |-> lookup_rate(o.cache, rq[u].from_currency, "USDT"),
                  fetched |-> o.fetched, fault |-> o.fault]
    /\ rq' = [rq EXCEPT ![u] = NoCall]

\* get_rate of user u from the answer of get_exchange_rates() on
get_rate_resume(u) ==
    /\ rq[u].pc \in {"fetching", "filling"}
    /\ IF rq[u].pc = "fetching" /\ source = "down"
       THEN get_rate_failed(u, update_cache(Oracle))
       ELSE \E s \in {IF rq[u].pc = "fetching" THEN source ELSE rq[u].rates} :
            \E last \in {j \in fill_yields(Len(rate_list(s))) : j > rq[u].step}
                            \cup {Len(rate_list(s))} :
                get_rate_fill(u, s, rq[u].step, last)
    /\ UNCHANGED <<fsm_state, data, exchanges, invoices, checks, now, source, USE_TESTNET,
                   reply, cp, shown>>

\* extract_number: float of the first number of the text, None without one
extract_number(text) ==
    IF text = NoNumber THEN None
    ELSE IF text.sg < 0 THEN FNeg(FromDecimal(1, text.n, text.k))
    ELSE FromDecimal(1, text.n, text.k)

\* the rate validate_exchange_amount works with, None when it gives up
validation_rate(rate, currency) ==
    IF Truthy(rate) THEN rate
    ELSE IF USE_TESTNET /\ currency \in DOMAIN test_rates /\ FGt(test_rates[currency], FZero)
    THEN test_rates[currency]
    ELSE None

\* check_limits with the comparisons of the limits made strict the wrong way
check_limits_strict(amount_usdt) ==
    IF FLe(amount_usdt, MIN_USDT_AMOUNT) THEN "min"
    ELSE IF ~FLt(amount_usdt, USDT_MAX_LIMIT) THEN "max"
    ELSE ""

\* check_limits without the test of the maximum
check_limits_no_max(amount_usdt) ==
    IF FLt(amount_usdt, MIN_USDT_AMOUNT) THEN "min" ELSE ""

\* check_limits without the test of the minimum
check_limits_no_min(amount_usdt) ==
    IF FGt(amount_usdt, USDT_MAX_LIMIT) THEN "max" ELSE ""

\* the limit checks of validate_exchange_amount: "" when within the limits
check_limits(amount_usdt) ==
    IF FLt(amount_usdt, MIN_USDT_AMOUNT) THEN "min"
    ELSE IF FGt(amount_usdt, USDT_MAX_LIMIT) THEN "max"
    ELSE ""

\* the answer of validate_exchange_amount for an amount_usdt computed at rate
limit_result(amount_usdt, rate, o) ==
    [is_valid |-> check_limits(amount_usdt) = "", error |-> check_limits(amount_usdt),
     amount_usdt |-> amount_usdt, rate |-> rate, o |-> o]

\* validate_exchange_amount once the rate is known (None: no rate)
validate_at_rate(amount, rate, o) ==
    IF rate = None
    THEN [is_valid |-> FALSE, error |-> "norate", amount_usdt |-> None, rate |-> None, o |-> o]
    ELSE limit_result(FMul(amount, rate), rate, o)

\* validate_exchange_amount that accepts whatever the limits say
validate_exchange_amount_any(amount, currency, o) ==
    [is_valid |-> TRUE, error |-> "", amount_usdt |-> FMul(amount, Dec(2, 0)),
     rate |-> Dec(2, 0), o |-> o]

\* validate_exchange_amount: (is_valid, error, amount_usdt, rate); o is the
\* oracle state its get_rate call looks the rate up in, that is the state
\* after the refresh when one was due
validate_exchange_amount(amount, currency, o) ==
    IF FLe(amount, FZero)
    THEN [is_valid |-> FALSE, error |-> "positive", amount_usdt |-> None, rate |-> None, o |-> o]
    ELSE validate_at_rate(amount,
                          validation_rate(lookup_rate(o.cache, currency, "USDT"), currency), o)

(***************************************************************************)
(* Conversation handlers.  aiogram runs every update of the chat as a task *)
(* of one event loop: a handler runs until it waits for Telegram (answer,  *)
(* edit_text), for the gateway (create_invoice, get_invoices,              *)
(* create_check) or for the price source (get_exchange_rates), and other   *)
(* handlers of the chat run while it waits.  The FSM storage is in memory: *)
(* get_data, update_data, set_state and clear never wait.  An action is    *)
(* the part of a handler between two such waits; cp[h] is the frame of the *)
(* handler in slot h: the call it waits for and its local variables.       *)
(* A message is sent when its call is made, so reply changes in the step   *)
(* that ends with the call.  Telegram calls are taken to succeed; the      *)
(* table users and the random exchange_id string of a row play no part in  *)
(* any decision and are not represented, nor is the display value          *)
(* max_amount_in_currency, which is USDT_MAX_LIMIT / rate and is stored    *)
(* next to rate whenever rate is stored.                                   *)
(***************************************************************************)

\* the frame of a check_payment handler
Frame(pc, id, invoice_id, amount) ==
    [pc |-> pc, id |-> id, invoice_id |-> invoice_id, amount |-> amount,
     from_currency |-> "", d |-> EmptyData]

\* the frame of any other handler: the currency and the amount it works on
\* and the dictionary it holds (the data it read, the rates it has listed)
Local(pc, from_currency, amount, d) ==
    [pc |-> pc, id |-> 0, invoice_id |-> 0, amount |-> amount,
     from_currency |-> from_currency, d |-> d]

\* the slot a new handler takes among the slots S: the first one not in use
free(S) == {h \in S : cp[h].pc = "idle" /\ \A g \in S : g < h => cp[g].pc # "idle"}

\* clear that resets the state and keeps the data
Clear_keep_data ==
    /\ fsm_state' = "none"
    /\ UNCHANGED data

\* clear that empties the data and keeps the state
Clear_keep_state ==
    /\ data' = EmptyData
    /\ UNCHANGED fsm_state

\* FSMContext.clear
Clear ==
    /\ fsm_state' = "none"
    /\ data' = EmptyData

\* cmd_start: clear, then the welcome message
cmd_start ==
    /\ Clear
    /\ reply' = "start:welcome"
    /\ UNCHANGED <<exchanges, invoices, checks, cache, cache_expiry, now, source, USE_TESTNET,
                   cp, shown, answer, rq>>

\* what cmd_status tells about row: its status
status_text(row) == "status:" \o row.status

\* the rows get_user_exchanges(user_id, limit=1) can give: the row with the
\* latest created_at.  created_at is the CURRENT_TIMESTAMP of the insert, in
\* whole seconds, and the rows of a conversation in which no second passes
\* share it, so that ORDER BY created_at DESC may put any of them first.
latest_exchanges == 1..Len(exchanges)

\* cmd_status (command /status, in any FSM state): the message about the
\* latest row of the user, or that there is none; it reads the ledger and
\* writes nothing
cmd_status ==
    /\ IF exchanges = << >>
       THEN reply' = "status:none"
       ELSE \E i \in latest_exchanges : reply' = status_text(exchanges[i])
    /\ UNCHANGED <<fsm_state, data, exchanges, invoices, checks, cache, cache_expiry, now,
                   source, USE_TESTNET, cp, shown, answer, rq>>

\* cmd_cancel: clear, then the message
cmd_cancel ==
    /\ Clear
    /\ reply' = "cancel:cancelled"
    /\ UNCHANGED <<exchanges, invoices, checks, cache, cache_expiry, now, source, USE_TESTNET,
                   cp, shown, answer, rq>>

\* cancel_exchange (button) up to edit_text
cancel_exchange_begin(h) ==
    /\ cp[h].pc = "idle"
    /\ reply' = "cancel_exchange:cancelled"
    /\ cp' = [cp EXCEPT ![h] = Local("cancel_exchange:edit_text", "", FZero, EmptyData)]
    /\ UNCHANGED <<fsm_state, data, exchanges, invoices, checks, cache, cache_expiry, now,
                   source, USE_TESTNET, shown, answer, rq>>

\* cancel_exchange from the answer of edit_text on: clear
cancel_exchange_finish(h) ==
    /\ cp[h].pc = "cancel_exchange:edit_text"
    /\ Clear
    /\ cp' = [cp EXCEPT ![h] = Idle]
    /\ UNCHANGED <<exchanges, invoices, checks, cache, cache_expiry, now, source, USE_TESTNET,
                   reply, shown, answer, rq>>

\* cmd_exchange up to message.answer: asks for the currency
cmd_exchange_begin(h) ==
    /\ cp[h].pc = "idle"
    /\ reply' = "exchange:choose"
    /\ cp' = [cp EXCEPT ![h] = Local("cmd_exchange:answer", "", FZero, EmptyData)]
    /\ UNCHANGED <<fsm_state, data, exchanges, invoices, checks, cache, cache_expiry, now,
                   source, USE_TESTNET, shown, answer, rq>>

\* cmd_exchange from the answer of message.answer on: set_state; the data
\* dictionary is kept
cmd_exchange_finish(h) ==
    /\ cp[h].pc = "cmd_exchange:answer"
    /\ fsm_state' = "choosing_from_currency"
    /\ cp' = [cp EXCEPT ![h] = Idle]
    /\ UNCHANGED <<data, exchanges, invoices, checks, cache, cache_expiry, now, source,
                   USE_TESTNET, reply, shown, answer, rq>>

\* new_exchange_callback up to the message.answer of the cmd_exchange it
\* calls: clear, then cmd_exchange, which goes on as cmd_exchange_finish
new_exchange_callback_begin(h) ==
    /\ cp[h].pc = "idle"
    /\ Clear
    /\ reply' = "exchange:choose"
    /\ cp' = [cp EXCEPT ![h] = Local("cmd_exchange:answer", "", FZero, EmptyData)]
    /\ UNCHANGED <<exchanges, invoices, checks, cache, cache_expiry, now, source, USE_TESTNET,
                   shown, answer, rq>>

\* display_rate without the fallback
display_rate_none(rate, from_currency) == rate

\* the rate process_from_currency shows the maximum for
display_rate(rate, from_currency) ==
    IF Truthy(rate) /\ FGt(rate, FZero) THEN rate
    ELSE IF USE_TESTNET
    THEN (IF from_currency \in DOMAIN test_rates THEN test_rates[from_currency] ELSE Dec(1, 0))
    ELSE Dec(1, 0)

\* the fields process_from_currency stores
currency_fields(from_currency, rate) ==
    [f \in {"from_currency", "to_currency", "rate"} |->
        CASE f = "from_currency" -> from_currency
          [] f = "to_currency" -> "USDT"
          [] f = "rate" -> display_rate(rate, from_currency)]

\* process_from_currency from the return of get_rate, which leaves the oracle
\* in state o, to edit_text
process_from_currency_rate(h, from_currency, o) ==
    /\ cache' = o.cache
    /\ cache_expiry' = o.cache_expiry
    /\ data' = update_data(data, currency_fields(from_currency,
                                                 lookup_rate(o.cache, from_currency, "USDT")))
    /\ reply' = "currency:enter_amount"
    /\ cp' = [cp EXCEPT ![h] = Local("process_from_currency:edit_text", from_currency,
                                     FZero, EmptyData)]

\* process_from_currency (button from_currency:<code>, in any FSM state) up
\* to its first wait
process_from_currency_begin(h, from_currency) ==
    /\ cp[h].pc = "idle"
    /\ IF from_currency \notin CRYPTO_ASSETS
       THEN /\ reply' = "currency:unknown"
            /\ UNCHANGED <<data, cache, cache_expiry, cp>>
       ELSE IF needs_update(Oracle)
       THEN /\ cp' = [cp EXCEPT ![h] = Local("process_from_currency:get_rate", from_currency,
                                             FZero, EmptyData)]
            /\ UNCHANGED <<data, cache, cache_expiry, reply>>
       ELSE process_from_currency_rate(h, from_currency, Oracle)
    /\ UNCHANGED <<fsm_state, exchanges, invoices, checks, now, source, USE_TESTNET, shown,
                   answer, rq>>

\* process_from_currency from the answer of get_exchange_rates() to edit_text
process_from_currency_rates(h) ==
    /\ cp[h].pc = "process_from_currency:get_rate"
    /\ process_from_currency_rate(h, cp[h].from_currency, update_cache(Oracle))
    /\ UNCHANGED <<fsm_state, exchanges, invoices, checks, now, source, USE_TESTNET, shown,
                   answer, rq>>

\* process_from_currency from the answer of edit_text on: set_state
process_from_currency_finish(h) ==
    /\ cp[h].pc = "process_from_currency:edit_text"
    /\ fsm_state' = "entering_amount"
    /\ cp' = [cp EXCEPT ![h] = Idle]
    /\ UNCHANGED <<data, exchanges, invoices, checks, cache, cache_expiry, now, source,
                   USE_TESTNET, reply, shown, answer, rq>>

\* the order in which cmd_rates walks CRYPTO_ASSETS
AssetOrder == <<"BTC", "ETH", "SOL", "TON", "NOT">>

\* the place of an asset in that order
position(c) == CHOOSE n \in 1..Len(AssetOrder) : AssetOrder[n] = c

\* what cmd_rates lists for a rate: the rate, or None for "not available"
shown_rate(rate) == IF Truthy(rate) /\ FGt(rate, FZero) THEN rate ELSE None

\* the list of cmd_rates once the assets of listed are done and those from
\* place n on are looked up in cache c
rates_listed(listed, n, c) ==
    [a \in CRYPTO_ASSETS |->
        IF position(a) < n THEN listed[a] ELSE shown_rate(lookup_rate(c, a, "USDT"))]

\* cmd_rates from the return of the get_rate call for the asset at place n,
\* which leaves the oracle in state o: the loop goes on until a get_rate call
\* has to wait for the source, or to message.answer
cmd_rates_rate(h, listed, n, o) ==
    /\ cache' = o.cache
    /\ cache_expiry' = o.cache_expiry
    /\ IF n < Len(AssetOrder) /\ needs_update(o)
       THEN /\ cp' = [cp EXCEPT ![h] = Local("cmd_rates:get_rate", AssetOrder[n + 1], FZero,
                                             [a \in {AssetOrder[i] : i \in 1..n} |->
                                                 rates_listed(listed, n, o.cache)[a]])]
            /\ UNCHANGED <<shown, reply>>
       ELSE /\ shown' = rates_listed(listed, n, o.cache)
            /\ reply' = "rates:list"
            /\ cp' = [cp EXCEPT ![h] = Idle]

\* cmd_rates up to its first wait
cmd_rates_begin(h) ==
    /\ cp[h].pc = "idle"
    /\ IF needs_update(Oracle)
       THEN /\ cp' = [cp EXCEPT ![h] = Local("cmd_rates:get_rate", AssetOrder[1], FZero,
                                             EmptyData)]
            /\ UNCHANGED <<cache, cache_expiry, shown, reply>>
       ELSE cmd_rates_rate(h, EmptyData, 1, Oracle)
    /\ UNCHANGED <<fsm_state, data, exchanges, invoices, checks, now, source, USE_TESTNET,
                   answer, rq>>

\* cmd_rates from an answer of get_exchange_rates() to its next wait
cmd_rates_rates(h) ==
    /\ cp[h].pc = "cmd_rates:get_rate"
    /\ cmd_rates_rate(h, cp[h].d, position(cp[h].from_currency), update_cache(Oracle))
    /\ UNCHANGED <<fsm_state, data, exchanges, invoices, checks, now, source, USE_TESTNET,
                   answer, rq>>

\* the commission computation of process_amount
commission_original(amount) == FMul(amount, COMMISSION_RATE)

commission_usdt(commission, rate) == IF Truthy(rate) THEN FMul(commission, rate) ELSE FZero

final_amount_usdt(amount_usdt, commission) ==
    IF Truthy(amount_usdt) THEN FSub(amount_usdt, commission) ELSE FZero

\* the fields process_amount stores
computed_fields(amount, amount_usdt, rate, commission, commission_in_usdt) ==
    [f \in {"amount", "final_amount", "commission_amount", "commission_usdt",
            "amount_usdt", "rate"} |->
        CASE f = "amount" -> amount
          [] f = "final_amount" -> final_amount_usdt(amount_usdt, commission_in_usdt)
          [] f = "commission_amount" -> commission
          [] f = "commission_usdt" -> commission_in_usdt
          [] f = "amount_usdt" -> amount_usdt
          [] f = "rate" -> rate]

compute(amount, amount_usdt, rate) ==
    computed_fields(amount, amount_usdt, rate, commission_original(amount),
                    commission_usdt(commission_original(amount), rate))

\* process_amount from the return v of validate_exchange_amount to its
\* return or to message.answer
process_amount_validated(h, from_currency, amount, v) ==
    /\ cache' = v.o.cache
    /\ cache_expiry' = v.o.cache_expiry
    /\ IF ~v.is_valid
       THEN /\ reply' = "amount:" \o v.error
            /\ cp' = [cp EXCEPT ![h] = Idle]
            /\ UNCHANGED data
       ELSE /\ data' = update_data(data, compute(amount, v.amount_usdt, v.rate))
            /\ reply' = "amount:confirm"
            /\ cp' = [cp EXCEPT ![h] = Local("process_amount:answer", from_currency, amount,
                                             EmptyData)]

\* process_amount (a text message that arrives while the FSM state is
\* entering_amount) up to its return or its first wait
process_amount_begin(h, text) ==
    /\ cp[h].pc = "idle"
    /\ fsm_state = "entering_amount"
    /\ UNCHANGED <<fsm_state, exchanges, invoices, checks, now, source, USE_TESTNET, shown,
                   answer, rq>>
    /\ IF "from_currency" \notin DOMAIN data
       THEN /\ reply' = "amount:no_currency"
            /\ cp' = [cp EXCEPT ![h] = Local("process_amount:no_currency", "", FZero,
                                             EmptyData)]
            /\ UNCHANGED <<data, cache, cache_expiry>>
       ELSE \E amount \in {extract_number(text)} :
                IF amount = None
                THEN /\ reply' = "amount:no_number"
                     /\ UNCHANGED <<data, cache, cache_expiry, cp>>
                ELSE IF FLe(amount, FZero)
                THEN /\ reply' = "amount:positive"
                     /\ UNCHANGED <<data, cache, cache_expiry, cp>>
                ELSE IF needs_update(Oracle)
                THEN /\ cp' = [cp EXCEPT ![h] = Local("process_amount:get_rate",
                                                      data["from_currency"], amount,
                                                      EmptyData)]
                     /\ UNCHANGED <<data, cache, cache_expiry, reply>>
                ELSE \E v \in {validate_exchange_amount(amount, data["from_currency"],
                                                        Oracle)} :
                         process_amount_validated(h, data["from_currency"], amount, v)

\* process_amount from the answer of get_exchange_rates() to its return or
\* to message.answer
process_amount_rates(h) ==
    /\ cp[h].pc = "process_amount:get_rate"
    /\ UNCHANGED <<fsm_state, exchanges, invoices, checks, now, source, USE_TESTNET, shown,
                   answer, rq>>
    /\ \E v \in {validate_exchange_amount(cp[h].amount, cp[h].from_currency,
                                          update_cache(Oracle))} :
           process_amount_validated(h, cp[h].from_currency, cp[h].amount, v)

\* process_amount from the answer of message.answer on: set_state after the
\* confirmation question, clear after the complaint about the currency
process_amount_finish(h) ==
    /\ cp[h].pc \in {"process_amount:answer", "process_amount:no_currency"}
    /\ IF cp[h].pc = "process_amount:answer"
       THEN /\ fsm_state' = "confirming_exchange"
            /\ UNCHANGED data
       ELSE Clear
    /\ cp' = [cp EXCEPT ![h] = Idle]
    /\ UNCHANGED <<exchanges, invoices, checks, cache, cache_expiry, now, source, USE_TESTNET,
                   reply, shown, answer, rq>>

\* the fields confirm_exchange requires
required_fields ==
    {"from_currency", "amount", "final_amount", "commission_amount", "commission_usdt",
     "amount_usdt"}

\* exchange_row that does not record the invoice
exchange_row_no_invoice(d, invoice_id) ==
    [from_currency |-> d["from_currency"], to_currency |-> "USDT",
     amount |-> d["amount"], commission |-> d["commission_amount"],
     commission_usdt |-> d["commission_usdt"], final_amount |-> d["final_amount"],
     amount_usdt |-> d["amount_usdt"], invoice_id |-> 0,
     status |-> "pending", check_id |-> 0]

\* the row confirm_exchange inserts (Database.save_exchange)
exchange_row(d, invoice_id) ==
    [from_currency |-> d["from_currency"], to_currency |-> "USDT",
     amount |-> d["amount"], commission |-> d["commission_amount"],
     commission_usdt |-> d["commission_usdt"], final_amount |-> d["final_amount"],
     amount_usdt |-> d["amount_usdt"], invoice_id |-> invoice_id,
     status |-> "pending", check_id |-> 0]

\* invoice_failed that also clears the conversation
invoice_failed_clearing ==
    /\ reply' = "confirm:invoice_error"
    /\ Clear
    /\ UNCHANGED <<exchanges, invoices>>

\* the except clause around create_invoice: a message, then return
invoice_failed ==
    /\ reply' = "confirm:invoice_error"
    /\ UNCHANGED <<fsm_state, data, exchanges, invoices>>

\* the handlers that wait for the answer of create_invoice
creating == {h \in Handlers : cp[h].pc = "confirm_exchange:create_invoice"}

\* fewer than n invoices exist or are asked for, or the next confirm asks for none
room(n) ==
    required_fields \subseteq DOMAIN data => Len(invoices) + Cardinality(creating) < n

\* confirm_exchange (button confirm_exchange, in any FSM state) up to its
\* first wait: the complaint about a missing field, or create_invoice with
\* the data it has read
confirm_exchange_begin(h) ==
    /\ cp[h].pc = "idle"
    /\ IF ~(required_fields \subseteq DOMAIN data)
       THEN /\ reply' = "confirm:restart"
            /\ cp' = [cp EXCEPT ![h] = Local("confirm_exchange:answer", "", FZero, EmptyData)]
       ELSE /\ cp' = [cp EXCEPT ![h] = Local("confirm_exchange:create_invoice",
                                             data["from_currency"], data["amount"], data)]
            /\ UNCHANGED reply
    /\ UNCHANGED <<fsm_state, data, exchanges, invoices, checks, cache, cache_expiry, now,
                   source, USE_TESTNET, shown, answer, rq>>

\* confirm_exchange from the answer of create_invoice on; gateway_ok tells
\* whether the call succeeded.  The row and the invoice are written from the
\* data read before the call, the ids are stored in the data of now.
confirm_exchange_invoice(h, gateway_ok) ==
    /\ cp[h].pc = "confirm_exchange:create_invoice"
    /\ cp' = [cp EXCEPT ![h] = Idle]
    /\ UNCHANGED <<checks, cache, cache_expiry, now, source, USE_TESTNET, shown, answer, rq>>
    /\ IF ~gateway_ok
       THEN invoice_failed
       ELSE /\ invoices' = Append(invoices, [asset |-> cp[h].d["from_currency"],
                                             amount |-> cp[h].d["amount"],
                                             status |-> "active"])
            /\ exchanges' = Append(exchanges, exchange_row(cp[h].d, Len(invoices) + 1))
            /\ data' = update_data(data, [f \in {"exchange_db_id", "invoice_id"} |->
                                            IF f = "exchange_db_id" THEN Len(exchanges) + 1
                                            ELSE Len(invoices) + 1])
            /\ reply' = "confirm:invoice"
            /\ UNCHANGED fsm_state

\* confirm_exchange from the answer of the complaint on: clear
confirm_exchange_finish(h) ==
    /\ cp[h].pc = "confirm_exchange:answer"
    /\ Clear
    /\ cp' = [cp EXCEPT ![h] = Idle]
    /\ UNCHANGED <<exchanges, invoices, checks, cache, cache_expiry, now, source, USE_TESTNET,
                   reply, shown, answer, rq>>

\* update_exchange_with_check that sets the status and drops the check
update_exchange_status_only(rows, exchange_id, check_id) ==
    [i \in 1..Len(rows) |->
        IF i = exchange_id
        THEN [rows[i] EXCEPT !.status = "completed", !.check_id = 0]
        ELSE rows[i]]

\* Database.update_exchange_with_check: UPDATE ... WHERE id = exchange_id
update_exchange_with_check(rows, exchange_id, check_id) ==
    [i \in 1..Len(rows) |->
        IF i = exchange_id
        THEN [rows[i] EXCEPT !.status = "completed", !.check_id = check_id]
        ELSE rows[i]]

\* is_paid that takes an invoice still open for a paid one
is_paid_or_active(invoice) == invoice.status \in {"paid", "active"}

\* the test of check_payment on the invoice the gateway returned
is_paid(invoice) == invoice.status = "paid"

\* the amount check_payment asks the check for
check_amount(d) == IF "final_amount" \in DOMAIN d THEN d["final_amount"] ELSE FZero

\* check_payment (button check_payment:<id>, in any FSM state) from the
\* callback to the call of get_invoices
check_payment_begin(h, exchange_db_id) ==
    /\ cp[h].pc = "idle"
    /\ UNCHANGED <<fsm_state, data, exchanges, invoices, checks, cache, cache_expiry, now,
                   source, USE_TESTNET, shown, answer, rq>>
    /\ IF "invoice_id" \notin DOMAIN data
       THEN /\ reply' = "check:no_info"
            /\ UNCHANGED cp
       ELSE /\ cp' = [cp EXCEPT ![h] = Frame("get_invoices", exchange_db_id,
                                             data["invoice_id"], FZero)]
            /\ UNCHANGED reply

\* what a call of get_invoices can give: an exception, no invoice (an empty
\* list or None), or the invoice asked for
InvoiceAnswers == {"raises", "empty", "invoice"}

\* from the answer of get_invoices to the call of create_check; got is what
\* get_invoices gave
check_payment_invoices(h, got) ==
    /\ cp[h].pc = "get_invoices"
    /\ UNCHANGED <<fsm_state, data, exchanges, invoices, checks, cache, cache_expiry, now,
                   source, USE_TESTNET, shown, answer, rq>>
    /\ IF got = "raises"
       THEN /\ reply' = "check:invoice_error"
            /\ cp' = [cp EXCEPT ![h] = Idle]
       ELSE IF got = "empty"
       THEN /\ reply' = "check:invoice_not_found"
            /\ cp' = [cp EXCEPT ![h] = Idle]
       ELSE IF ~is_paid(invoices[cp[h].invoice_id])
       THEN /\ reply' = "check:not_paid"
            /\ cp' = [cp EXCEPT ![h] = Idle]
       ELSE /\ cp' = [cp EXCEPT ![h] = Frame("create_check", cp[h].id, cp[h].invoice_id,
                                             check_amount(data))]
            /\ UNCHANGED reply

\* from the answer of create_check to the call of edit_text; check_ok tells
\* whether create_check succeeded
check_payment_check(h, check_ok) ==
    /\ cp[h].pc = "create_check"
    /\ UNCHANGED <<fsm_state, data, invoices, cache, cache_expiry, now, source, USE_TESTNET,
                   shown, answer, rq>>
    /\ IF ~check_ok
       THEN /\ reply' = "check:check_error"
            /\ cp' = [cp EXCEPT ![h] = Idle]
            /\ UNCHANGED <<exchanges, checks>>
       ELSE /\ Len(checks) < MaxChecks
            /\ checks' = Append(checks, [asset |-> "USDT", amount |-> cp[h].amount])
            /\ exchanges' = update_exchange_with_check(exchanges, cp[h].id, Len(checks) + 1)
            /\ reply' = "check:settled"
            /\ cp' = [cp EXCEPT ![h].pc = "edit_text"]

\* from the answer of edit_text to the end of the handler: clear
check_payment_finish(h) ==
    /\ cp[h].pc = "edit_text"
    /\ Clear
    /\ cp' = [cp EXCEPT ![h] = Idle]
    /\ UNCHANGED <<exchanges, invoices, checks, cache, cache_expiry, now, source, USE_TESTNET,
                   reply, shown, answer, rq>>

(***************************************************************************)
(* Environment.                                                            *)
(***************************************************************************)
\* the user pays an invoice at the gateway
PayInvoice(i) ==
    /\ i \in 1..Len(invoices)
    /\ invoices[i].status = "active"
    /\ invoices' = [invoices EXCEPT ![i].status = "paid"]
    /\ UNCHANGED <<fsm_state, data, exchanges, checks, cache, cache_expiry, now, source,
                   USE_TESTNET, reply, cp, shown, answer, rq>>

\* the price source goes down, comes back or changes its rates
SourceChange(s) ==
    /\ s # source
    /\ source' = s
    /\ UNCHANGED <<fsm_state, data, exchanges, invoices, checks, cache, cache_expiry, now,
                   USE_TESTNET, reply, cp, shown, answer, rq>>

\* time passes
Tick ==
    /\ now + TickStep <= MaxTime
    /\ now' = now + TickStep
    /\ UNCHANGED <<fsm_state, data, exchanges, invoices, checks, cache, cache_expiry, source,
                   USE_TESTNET, reply, cp, shown, answer, rq>>

(***************************************************************************)
(* Specifications.  A new handler takes the first slot not in use; with    *)
(* the slots Handlers two handlers of the chat can be in progress at once, *)
(* with the slot of Single one, while the commands that finish before      *)
(* their first wait (/start, /cancel) run at any time.                     *)
(***************************************************************************)
\* the slot of a conversation whose updates arrive one after the other
Single == {1}

\* the steps that resume the handlers of the conversation in the slots S
Resume(S) ==
    \/ \E h \in S : cancel_exchange_finish(h)
    \/ \E h \in S : cmd_exchange_finish(h)
    \/ \E h \in S : process_from_currency_rates(h)
    \/ \E h \in S : process_from_currency_finish(h)
    \/ \E h \in S : process_amount_rates(h)
    \/ \E h \in S : process_amount_finish(h)
    \/ \E h \in S : cmd_rates_rates(h)
    \/ \E h \in S, ok \in BOOLEAN : confirm_exchange_invoice(h, ok)
    \/ \E h \in S : confirm_exchange_finish(h)
    \/ \E h \in S, got \in InvoiceAnswers : check_payment_invoices(h, got)
    \/ \E h \in S, ok \in BOOLEAN : check_payment_check(h, ok)
    \/ \E h \in S : check_payment_finish(h)

\* the whole conversation, one handler at a time, with a price source that
\* can be down
Next ==
    \/ cmd_start
    \/ cmd_cancel
    \/ cmd_status
    \/ \E h \in free(Single) : cmd_rates_begin(h)
    \/ \E h \in free(Single) : cancel_exchange_begin(h)
    \/ \E h \in free(Single) : cmd_exchange_begin(h)
    \/ \E h \in free(Single) : new_exchange_callback_begin(h)
    \/ \E h \in free(Single), c \in Codes : process_from_currency_begin(h, c)
    \/ \E h \in free(Single), t \in Texts : process_amount_begin(h, t)
    \/ \E h \in free(Single) : room(MaxInvoices) /\ confirm_exchange_begin(h)
    \/ \E h \in free(Single), id \in 1..MaxInvoices : check_payment_begin(h, id)
    \/ Resume(Single)
    \/ \E i \in 1..MaxInvoices : PayInvoice(i)
    \/ \E s \in Outages : SourceChange(s)

Spec == Init /\ [][Next]_vars

\* the whole conversation with two handlers in progress at once, with a
\* price source that can be down
NextConc ==
    \/ cmd_start
    \/ cmd_cancel
    \/ cmd_status
    \/ \E h \in free(Handlers) : cmd_rates_begin(h)
    \/ \E h \in free(Handlers) : cancel_exchange_begin(h)
    \/ \E h \in free(Handlers) : cmd_exchange_begin(h)
    \/ \E h \in free(Handlers) : new_exchange_callback_begin(h)
    \/ \E h \in free(Handlers), c \in ConcCodes : process_from_currency_begin(h, c)
    \/ \E h \in free(Handlers), t \in ConcTexts : process_amount_begin(h, t)
    \/ \E h \in free(Handlers) : room(ConcInvoices) /\ confirm_exchange_begin(h)
    \/ \E h \in free(Handlers), id \in 1..ConcInvoices : check_payment_begin(h, id)
    \/ Resume(Handlers)
    \/ \E i \in 1..ConcInvoices : PayInvoice(i)
    \/ \E s \in Outages : SourceChange(s)

SpecConc == Init /\ [][NextConc]_vars

\* the steps of process_from_currency and process_amount in slot 1
Amounts(codes, texts) ==
    \/ \E h \in free(Single), c \in codes : process_from_currency_begin(h, c)
    \/ \E h \in Single : process_from_currency_rates(h)
    \/ \E h \in Single : process_from_currency_finish(h)
    \/ \E h \in free(Single), t \in texts : process_amount_begin(h, t)
    \/ \E h \in Single : process_amount_rates(h)
    \/ \E h \in Single : process_amount_finish(h)

\* amounts around the limits, in either mode and with any price source
NextCalc == Amounts(Codes, CalcTexts)

SpecCalc == InitEnv /\ [][NextCalc]_vars

\* the oracle over time, with a price source that fails and recovers
NextOracle ==
    \/ \E h \in free(Single) : cmd_rates_begin(h)
    \/ \E h \in Single : cmd_rates_rates(h)
    \/ Amounts(Codes, Texts)
    \/ \E s \in Sources : SourceChange(s)
    \/ Tick

SpecOracle == InitEnv /\ [][NextOracle]_vars

\* the rate cache on its own, asked for every code over time by one user
NextRates ==
    \/ \E u \in Single, c \in RateCodes : get_rate_begin(u, c)
    \/ \E u \in Single : get_rate_resume(u)
    \/ \E s \in Sources : SourceChange(s)
    \/ Tick

SpecRates == InitEnv /\ [][NextRates]_vars

\* the currencies the interleaved get_rate calls ask for
ReaderCodes == {"TON", "NOT"}

\* get_rate calls of two users interleaved at the await, over time
NextReaders ==
    \/ \E u \in Readers, c \in ReaderCodes : get_rate_begin(u, c)
    \/ \E u \in Readers : get_rate_resume(u)
    \/ \E s \in Sources : SourceChange(s)
    \/ Tick

SpecReaders == InitEnv /\ [][NextReaders]_vars

\* the currency buttons a user can tap again after entering an amount
SwitchCodes == {"TON", "BTC"}

\* a conversation in which the currency is chosen again at any time, also
\* while an earlier handler waits, and in which the cached rates expire
NextSwitch ==
    \/ \E h \in free(Handlers) : cmd_exchange_begin(h)
    \/ \E h \in Handlers : cmd_exchange_finish(h)
    \/ \E h \in free(Handlers), c \in SwitchCodes : process_from_currency_begin(h, c)
    \/ \E h \in Handlers : process_from_currency_rates(h)
    \/ \E h \in Handlers : process_from_currency_finish(h)
    \/ \E h \in free(Handlers), t \in ConcTexts : process_amount_begin(h, t)
    \/ \E h \in Handlers : process_amount_rates(h)
    \/ \E h \in Handlers : process_amount_finish(h)
    \/ \E h \in free(Handlers) : room(ConcInvoices) /\ confirm_exchange_begin(h)
    \/ \E h \in Handlers, ok \in BOOLEAN : confirm_exchange_invoice(h, ok)
    \/ \E h \in Handlers : confirm_exchange_finish(h)
    \/ Tick

SpecSwitch == Init /\ [][NextSwitch]_vars

(***************************************************************************)
(* Properties of the ledger and the gateway, one handler at a time (Spec). *)
(***************************************************************************)

\* every rate the oracle or the validator of this model can work with
ModelRates ==
    ({lookup_rate(RateTable(s), c, "USDT") : s \in Sources \ {"down"}, c \in CRYPTO_ASSETS}
        \cup {test_rates[c] : c \in DOMAIN test_rates}) \ {None}

\* the cache holds rates and its expiry time has not passed
Fresh == DOMAIN cache # {} /\ cache_expiry # 0 /\ now <= cache_expiry

WithinLimits(amount_usdt) ==
    FLe(MIN_USDT_AMOUNT, amount_usdt) /\ FLe(amount_usdt, USDT_MAX_LIMIT)

\* handler h is a check_payment for a row of the ledger
Checking(h) == cp[h].pc \in {"get_invoices", "create_check"} /\ cp[h].id \in 1..Len(exchanges)

\* C1: once the row of a request is completed, no step of a later
\* check_payment for that request issues a further check at the gateway or
\* reports a settlement again.
C1_NoPayoutAfterSettled ==
    [][\A h \in Handlers :
          (/\ Checking(h)
           /\ exchanges[cp[h].id].status = "completed"
           /\ \/ \E got \in InvoiceAnswers : check_payment_invoices(h, got)
              \/ \E ok \in BOOLEAN : check_payment_check(h, ok))
          => (checks' = checks /\ reply' # "check:settled")]_vars

\* C3: a confirm that directly follows a successful confirm (no other handler
\* has answered in between, so no new amount was submitted) creates neither a
\* second invoice nor a second ledger row.
C3_SecondConfirmCreatesNothing ==
    [][\A h \in Handlers, ok \in BOOLEAN :
          (reply = "confirm:invoice" /\ confirm_exchange_invoice(h, ok))
          => (invoices' = invoices /\ exchanges' = exchanges)]_vars

\* C4: when check_payment for request id has found the invoice of that request
\* paid and obtains a check, the check is in USDT and its amount is the
\* final_amount recorded in the ledger row of the request.
C4_CheckAmountIsLedgerNet ==
    [][\A h \in Handlers :
          (/\ Checking(h)
           /\ cp[h].invoice_id = exchanges[cp[h].id].invoice_id
           /\ check_payment_check(h, TRUE))
          => (/\ checks'[Len(checks')].asset = "USDT"
              /\ checks'[Len(checks')].amount = exchanges[cp[h].id].final_amount)]_vars

\* C16: after /exchange or the new-exchange button the conversation is in
\* choosing_from_currency and its data hold nothing of an earlier request.
C16_ExchangeStartsFresh ==
    [][\A h \in Handlers :
          cmd_exchange_finish(h)
          => (fsm_state' = "choosing_from_currency" /\ data' = EmptyData)]_vars

\* C21: when check_payment(id) turns row id from pending to completed, the
\* invoice it has verified as paid (the one named in the conversation data
\* when the button was pressed) is the invoice recorded in row id.
C21_CompletesRowOfVerifiedInvoice ==
    [][\A h \in Handlers :
          (/\ Checking(h)
           /\ check_payment_check(h, TRUE)
           /\ exchanges[cp[h].id].status = "pending"
           /\ exchanges'[cp[h].id].status = "completed")
          => (/\ exchanges[cp[h].id].invoice_id = cp[h].invoice_id
              /\ invoices[exchanges[cp[h].id].invoice_id].status = "paid")]_vars

\* C23: a check_payment for a request whose invoice is paid and whose row is
\* pending goes on to verify the invoice of that request at the gateway (and
\* from there, the gateway calls succeeding, to the check and the completed
\* row), whatever /cancel, /start, cancel button or /exchange came before.
C23_PaidRequestGetsSettled ==
    [][\A h \in Handlers, id \in 1..MaxInvoices :
          (/\ check_payment_begin(h, id)
           /\ id <= Len(exchanges)
           /\ exchanges[id].status = "pending"
           /\ invoices[exchanges[id].invoice_id].status = "paid")
          => (/\ cp'[h].pc = "get_invoices"
              /\ cp'[h].invoice_id = exchanges[id].invoice_id)]_vars

(***************************************************************************)
(* The conversation with two handlers in progress at once (SpecConc).      *)
(***************************************************************************)

\* no handler of the chat is in progress
Quiet == \A h \in Handlers : cp[h].pc = "idle"

\* C2: two check_payment handlers that run for the same request at the same
\* time do not both obtain a payout check: when one of them has had its
\* create_check answered, the other one makes no such call.
C2_AtMostOneHandlerPaysOut ==
    \A h1 \in Handlers, h2 \in Handlers :
        (h1 # h2 /\ cp[h1].pc = "edit_text" /\ cp[h2].pc = "edit_text")
        => ~(cp[h1].id = cp[h2].id /\ cp[h1].invoice_id = cp[h2].invoice_id)

\* the dictionary d holds an amount that passed validation: a positive amount
\* with the amount_usdt the validator computed for it (amount * rate for a
\* rate of the oracle), within the limits
HoldsValidated(d) ==
    /\ {"amount", "amount_usdt"} \subseteq DOMAIN d
    /\ FGt(d["amount"], FZero)
    /\ \E r \in ModelRates : FMul(d["amount"], r) = d["amount_usdt"]
    /\ WithinLimits(d["amount_usdt"])

\* C5: an invoice is created only from a conversation that held an amount
\* that passed validation: confirm asks for an invoice only while the data
\* hold such an amount, and the invoice is for that amount.
C5_InvoiceOnlyAfterValidatedAmount ==
    [][/\ \A h \in Handlers :
            (confirm_exchange_begin(h) /\ cp'[h].pc = "confirm_exchange:create_invoice")
            => (HoldsValidated(data) /\ cp'[h].d = data)
       /\ Len(invoices') > Len(invoices)
            => \E h \in Handlers :
                  /\ cp[h].pc = "confirm_exchange:create_invoice"
                  /\ cp'[h].pc = "idle"
                  /\ HoldsValidated(cp[h].d)
                  /\ invoices'[Len(invoices')].amount = cp[h].d["amount"]]_vars

\* C5 witness: an invoice exists and the conversation that created it still
\* holds the validated amount
C5_Witness ==
    /\ Len(invoices) > 0
    /\ {"invoice_id", "amount", "amount_usdt"} \subseteq DOMAIN data
    /\ invoices[data["invoice_id"]].amount = data["amount"]
    /\ reply = "confirm:invoice"

\* C6: check_payment on an invoice the gateway reports as not paid answers
\* "not yet paid" and ends; no step of it issues a check or changes the
\* ledger or the conversation, nor does it when the gateway reports no
\* invoice at all.
C6_NotPaidChangesNothing ==
    [][\A h \in Handlers :
          /\ \A id \in 1..MaxInvoices :
                check_payment_begin(h, id)
                => UNCHANGED <<checks, exchanges, invoices, fsm_state, data>>
          /\ (/\ cp[h].pc = "get_invoices"
              /\ invoices[cp[h].invoice_id].status # "paid"
              /\ check_payment_invoices(h, "invoice"))
             => (/\ reply' = "check:not_paid"
                 /\ cp'[h] = Idle
                 /\ UNCHANGED <<checks, exchanges, invoices, fsm_state, data>>)
          /\ check_payment_invoices(h, "empty")
             => (/\ reply' = "check:invoice_not_found"
                 /\ cp'[h] = Idle
                 /\ UNCHANGED <<checks, exchanges, invoices, fsm_state, data>>)]_vars

\* C6 witness: check_payment has just answered "not yet paid" for an open
\* invoice whose row is pending
C6_Witness ==
    /\ reply = "check:not_paid"
    /\ Quiet
    /\ {"invoice_id", "exchange_db_id"} \subseteq DOMAIN data
    /\ invoices[data["invoice_id"]].status = "active"
    /\ exchanges[data["exchange_db_id"]].status = "pending"
    /\ checks = << >>

\* C14: /cancel and the cancel button empty the conversation data, whatever
\* the conversation state (the button after its message has been edited),
\* and no step of them changes a ledger row, an invoice or a check.
C14_CancelDiscardsDataKeepsLedger ==
    [][\A h \in Handlers :
          /\ cancel_exchange_begin(h)
             => (/\ cp'[h].pc = "cancel_exchange:edit_text"
                 /\ UNCHANGED <<exchanges, invoices, checks>>)
          /\ (cmd_cancel \/ cancel_exchange_finish(h))
             => (/\ data' = EmptyData
                 /\ fsm_state' = "none"
                 /\ UNCHANGED <<exchanges, invoices, checks>>)]_vars

\* C14 witness: a conversation with a pending ledger row has been cancelled
\* with the button
C14_Witness ==
    /\ reply = "cancel_exchange:cancelled"
    /\ Quiet
    /\ data = EmptyData
    /\ fsm_state = "none"
    /\ Len(exchanges) > 0
    /\ exchanges[1].status = "pending"

\* C17: a failing create_invoice, get_invoices or create_check ends the
\* handler with the error message and leaves the conversation state, its
\* data, the ledger and the gateway's invoices and checks as they were.
C17_GatewayFailurePreserves ==
    [][\A h \in Handlers :
          /\ confirm_exchange_invoice(h, FALSE)
             => (/\ reply' = "confirm:invoice_error"
                 /\ cp'[h] = Idle
                 /\ UNCHANGED <<fsm_state, data, exchanges, invoices, checks>>)
          /\ check_payment_invoices(h, "raises")
             => (/\ reply' = "check:invoice_error"
                 /\ cp'[h] = Idle
                 /\ UNCHANGED <<fsm_state, data, exchanges, invoices, checks>>)
          /\ check_payment_check(h, FALSE)
             => (/\ reply' = "check:check_error"
                 /\ cp'[h] = Idle
                 /\ UNCHANGED <<fsm_state, data, exchanges, invoices, checks>>)]_vars

\* C17 witness: create_check has failed for a paid invoice and the row of the
\* request is still pending
C17_Witness ==
    /\ reply = "check:check_error"
    /\ Quiet
    /\ {"invoice_id", "exchange_db_id"} \subseteq DOMAIN data
    /\ invoices[data["invoice_id"]].status = "paid"
    /\ exchanges[data["exchange_db_id"]].status = "pending"
    /\ checks = << >>

\* one of the six fields confirm needs is not in the conversation data
MissingField ==
    \E f \in {"from_currency", "amount", "final_amount", "commission_amount",
               "commission_usdt", "amount_usdt"} : f \notin DOMAIN data

\* C18: a confirm while a required field is missing asks for no invoice,
\* writes no ledger row, tells the user to restart and then clears the
\* conversation.
C18_MissingFieldClears ==
    [][\A h \in Handlers :
          /\ (confirm_exchange_begin(h) /\ MissingField)
             => (/\ reply' = "confirm:restart"
                 /\ cp'[h].pc = "confirm_exchange:answer"
                 /\ UNCHANGED <<exchanges, invoices>>)
          /\ confirm_exchange_finish(h)
             => (/\ fsm_state' = "none"
                 /\ data' = EmptyData
                 /\ cp'[h] = Idle
                 /\ UNCHANGED <<exchanges, invoices>>)]_vars

\* C18 witness: a confirm has been refused and the conversation cleared while
\* the ledger already holds a row of an earlier request
C18_Witness ==
    /\ reply = "confirm:restart"
    /\ Quiet
    /\ fsm_state = "none"
    /\ data = EmptyData
    /\ Len(exchanges) = 1
    /\ Len(invoices) = 1

\* C22: a successful confirm appends exactly one invoice and exactly one row;
\* the row is pending and carries the asset, the amount and the id of that
\* invoice; every row of the ledger names an invoice.
C22_ConfirmCreatesOneMatchingRow ==
    [][\A h \in Handlers :
          confirm_exchange_invoice(h, TRUE)
          => (/\ Len(invoices') = Len(invoices) + 1
              /\ Len(exchanges') = Len(exchanges) + 1
              /\ SubSeq(invoices', 1, Len(invoices)) = invoices
              /\ SubSeq(exchanges', 1, Len(exchanges)) = exchanges
              /\ exchanges'[Len(exchanges')].status = "pending"
              /\ exchanges'[Len(exchanges')].invoice_id = Len(invoices')
              /\ exchanges'[Len(exchanges')].from_currency = invoices'[Len(invoices')].asset
              /\ exchanges'[Len(exchanges')].amount = invoices'[Len(invoices')].amount
              /\ \A i \in 1..Len(exchanges') :
                    exchanges'[i].invoice_id \in 1..Len(invoices'))]_vars

\* C22 witness: a confirm has succeeded although /start or /cancel emptied
\* the conversation while create_invoice was in progress: the row still
\* names its invoice and has its asset and amount
C22_Witness ==
    /\ reply = "confirm:invoice"
    /\ DOMAIN data = {"exchange_db_id", "invoice_id"}
    /\ Len(exchanges) = 1
    /\ exchanges[1].invoice_id = 1
    /\ exchanges[1].status = "pending"
    /\ exchanges[1].from_currency = invoices[1].asset
    /\ exchanges[1].amount = invoices[1].amount

\* C24: every check the bot has asked the gateway to create has an amount
\* that is strictly positive and at most USDT_MAX_LIMIT * (1 - COMMISSION_RATE).
C24_CheckAmountWithinBounds ==
    \A i \in 1..Len(checks) :
        /\ FGt(checks[i].amount, FZero)
        /\ FLe(checks[i].amount, FMul(USDT_MAX_LIMIT, FSub(Dec(1, 0), COMMISSION_RATE)))

\* C25: rows are only appended, a new row is pending, a completed row stays
\* completed and has a check reference, and no step changes the currency,
\* the amounts or the invoice id of a row.
C25_LedgerAppendOnlyMonotone ==
    [][/\ Len(exchanges') >= Len(exchanges)
       /\ \A i \in 1..Len(exchanges) :
            /\ exchanges'[i].from_currency = exchanges[i].from_currency
            /\ exchanges'[i].to_currency = exchanges[i].to_currency
            /\ exchanges'[i].amount = exchanges[i].amount
            /\ exchanges'[i].commission = exchanges[i].commission
            /\ exchanges'[i].commission_usdt = exchanges[i].commission_usdt
            /\ exchanges'[i].final_amount = exchanges[i].final_amount
            /\ exchanges'[i].amount_usdt = exchanges[i].amount_usdt
            /\ exchanges'[i].invoice_id = exchanges[i].invoice_id
            /\ exchanges[i].status = "completed" => exchanges'[i].status = "completed"
       /\ \A i \in 1..Len(exchanges') :
            /\ exchanges'[i].status \in {"pending", "completed"}
            /\ i > Len(exchanges) => exchanges'[i].status = "pending"
            /\ exchanges'[i].status = "completed" => exchanges'[i].check_id \in 1..Len(checks')]_vars

\* C25 witness: two check_payment handlers have both settled the request; its
\* row is completed, unchanged otherwise, and names the later check
C25_Witness ==
    /\ Len(exchanges) = 1
    /\ Len(checks) = 2
    /\ exchanges[1].status = "completed"
    /\ exchanges[1].check_id = 2
    /\ exchanges[1].invoice_id = 1

(***************************************************************************)
(* Limits and commission (SpecCalc).                                       *)
(***************************************************************************)

\* in this step handler h has validate_exchange_amount decide on the amount
\* of text t: at once when the cache is fresh, after the answer of the source
\* otherwise
Validating(h, t) ==
    /\ t # NoNumber
    /\ FGt(extract_number(t), FZero)
    /\ \/ /\ "from_currency" \in DOMAIN data
          /\ Fresh
          /\ process_amount_begin(h, t)
       \/ /\ cp[h].amount = extract_number(t)
          /\ process_amount_rates(h)

\* the currency handler h validates for
Currency(h) == IF cp[h].pc = "idle" THEN data["from_currency"] ELSE cp[h].from_currency

\* the rate validate_exchange_amount works with for currency c in this step
RateFor(c) == validation_rate(lookup_rate(cache', c, "USDT"), c)

\* the USDT equivalent of text t for handler h
UsdtOf(h, t) == FMul(extract_number(t), RateFor(Currency(h)))

\* C7: an amount whose USDT equivalent amount * rate is exactly
\* MIN_USDT_AMOUNT or exactly USDT_MAX_LIMIT is accepted; an amount whose USDT
\* equivalent is below the minimum (the next shorter decimal included) is
\* rejected with the minimum message and one above the maximum with the
\* maximum message, and a rejection leaves the conversation as it was.
C7_BoundaryInclusion ==
    [][\A h \in Single, t \in CalcTexts :
          (Validating(h, t) /\ RateFor(Currency(h)) # None)
          => (/\ (UsdtOf(h, t) = MIN_USDT_AMOUNT \/ UsdtOf(h, t) = USDT_MAX_LIMIT)
                    => (/\ reply' = "amount:confirm"
                        /\ cp'[h].pc = "process_amount:answer"
                        /\ data'["amount_usdt"] = UsdtOf(h, t))
              /\ FLt(UsdtOf(h, t), MIN_USDT_AMOUNT)
                    => (reply' = "amount:min" /\ UNCHANGED <<fsm_state, data>>)
              /\ FGt(UsdtOf(h, t), USDT_MAX_LIMIT)
                    => (reply' = "amount:max" /\ UNCHANGED <<fsm_state, data>>))]_vars

\* C7 witness: an amount worth exactly MIN_USDT_AMOUNT has been accepted
C7_Witness ==
    /\ reply = "amount:confirm"
    /\ fsm_state = "confirming_exchange"
    /\ data["amount_usdt"] = MIN_USDT_AMOUNT

\* C15: a refused amount (no number, not positive, no rate, below the
\* minimum, above the maximum) ends the handler with the reason, leaves the
\* conversation in entering_amount with its data unchanged and creates
\* neither an invoice nor a ledger row.
C15_RefusedAmountChangesNothing ==
    [][\A h \in Single, t \in CalcTexts :
          /\ (/\ process_amount_begin(h, t)
              /\ "from_currency" \in DOMAIN data
              /\ (t = NoNumber \/ FLe(extract_number(t), FZero)))
             => (/\ reply' \in {"amount:no_number", "amount:positive"}
                 /\ cp'[h] = Idle
                 /\ fsm_state' = "entering_amount"
                 /\ UNCHANGED <<data, exchanges, invoices>>)
          /\ (/\ Validating(h, t)
              /\ \/ RateFor(Currency(h)) = None
                 \/ FLt(UsdtOf(h, t), MIN_USDT_AMOUNT)
                 \/ FGt(UsdtOf(h, t), USDT_MAX_LIMIT))
             => (/\ reply' \in {"amount:norate", "amount:min", "amount:max"}
                 /\ cp'[h] = Idle
                 /\ fsm_state' = "entering_amount"
                 /\ UNCHANGED <<data, exchanges, invoices>>)]_vars

\* C15 witness: an amount has been refused for lack of a rate (source down,
\* production mode) and the conversation still waits for an amount
C15_Witness ==
    /\ reply = "amount:norate"
    /\ fsm_state = "entering_amount"
    /\ "amount" \notin DOMAIN data
    /\ source = "down"
    /\ ~USE_TESTNET

\* handler h validates "0.5" for TON while the TON rate is 2.0
HalfTonAtTwo(h) ==
    /\ Validating(h, Lit(1, 5, 1))
    /\ Currency(h) = "TON"
    /\ RateFor("TON") = Dec(2, 0)

\* C8 as stated: at the TON rate 2.0 the amount 0.5 TON is accepted with
\* amount_usdt 1.0, commission 0.05 USDT and net 0.95 USDT, and the
\* conversation moves on to confirming.
C8_HalfTonAccepted ==
    [][\A h \in Single :
          HalfTonAtTwo(h)
          => (/\ reply' = "amount:confirm"
              /\ cp'[h].pc = "process_amount:answer"
              /\ data'["amount_usdt"] = Dec(1, 0)
              /\ data'["commission_usdt"] = Dec(5, 2)
              /\ data'["final_amount"] = Dec(95, 2))]_vars

\* C8 amended: at the TON rate 2.0 the amount 0.5 TON is worth 1.0 USDT, which
\* is above USDT_MAX_LIMIT (0.5 USDT), so it is rejected with the maximum
\* message and the conversation stays in entering_amount with its data
\* unchanged; the largest accepted amount is 0.25 TON, which yields
\* amount_usdt 0.5, commission 0.025 USDT and net 0.475 USDT, and once the
\* confirmation question is sent the conversation moves to confirming.
C8_HalfTonRejected ==
    [][\A h \in Single :
          /\ HalfTonAtTwo(h)
             => (/\ reply' = "amount:max"
                 /\ cp'[h] = Idle
                 /\ fsm_state' = "entering_amount"
                 /\ UNCHANGED data)
          /\ (/\ Validating(h, Lit(1, 25, 2))
              /\ Currency(h) = "TON"
              /\ RateFor("TON") = Dec(2, 0))
             => (/\ reply' = "amount:confirm"
                 /\ cp'[h].pc = "process_amount:answer"
                 /\ data'["amount_usdt"] = Dec(5, 1)
                 /\ data'["commission_usdt"] = Dec(25, 3)
                 /\ data'["final_amount"] = Dec(475, 3))
          /\ (process_amount_finish(h) /\ cp[h].pc = "process_amount:answer")
             => fsm_state' = "confirming_exchange"]_vars

\* C8 witness: in a fresh conversation for TON at the rate 2.0 an amount has
\* just been refused as above the maximum
C8_Witness ==
    /\ reply = "amount:max"
    /\ fsm_state = "entering_amount"
    /\ "amount" \notin DOMAIN data
    /\ data["from_currency"] = "TON"
    /\ <<"TON", "USDT">> \in DOMAIN cache
    /\ cache[<<"TON", "USDT">>] = Dec(2, 0)

\* C9: for every accepted amount the stored commission and net payout add up
\* to the stored amount_usdt exactly, and the commission is amount_usdt *
\* COMMISSION_RATE.
C9_CommissionPlusNetIsAmount ==
    (reply = "amount:confirm" /\ "amount_usdt" \in DOMAIN data)
    => (/\ FAdd(data["commission_usdt"], data["final_amount"]) = data["amount_usdt"]
        /\ data["commission_usdt"] = FMul(data["amount_usdt"], COMMISSION_RATE))

\* process_from_currency has recorded currency c with a positive rate for the
\* displayed maximum, the fallback rate when the oracle has none
Recorded(c) ==
    /\ {"from_currency", "to_currency", "rate"} \subseteq DOMAIN data'
    /\ data'["from_currency"] = c
    /\ data'["to_currency"] = "USDT"
    /\ Truthy(data'["rate"])
    /\ FGt(data'["rate"], FZero)
    /\ lookup_rate(cache', c, "USDT") = None
          => data'["rate"] = IF USE_TESTNET THEN test_rates[c] ELSE Dec(1, 0)

\* C28: choosing a configured asset always records the currency with a
\* positive rate for the displayed maximum (the fallback rate when the oracle
\* has none), asks for the amount and then moves the conversation to
\* entering_amount; choosing an unknown code changes neither the FSM state
\* nor the data.
C28_CurrencyChoiceNeverBlocks ==
    [][\A h \in Single :
          /\ \A c \in Codes :
                process_from_currency_begin(h, c)
                => IF c \notin CRYPTO_ASSETS
                   THEN UNCHANGED <<fsm_state, data, cp>>
                   ELSE IF Fresh
                   THEN cp'[h].pc = "process_from_currency:edit_text" /\ Recorded(c)
                   ELSE /\ cp'[h].pc = "process_from_currency:get_rate"
                        /\ cp'[h].from_currency = c
          /\ process_from_currency_rates(h)
             => (/\ cp'[h].pc = "process_from_currency:edit_text"
                 /\ reply' = "currency:enter_amount"
                 /\ Recorded(cp[h].from_currency))
          /\ process_from_currency_finish(h)
             => (fsm_state' = "entering_amount" /\ UNCHANGED data)]_vars

\* C28 witness: TON was chosen while the source was down and the cache
\* empty; the conversation waits for the amount with the fallback rate 1.0
C28_Witness ==
    /\ reply = "currency:enter_amount"
    /\ fsm_state = "entering_amount"
    /\ source = "down"
    /\ ~USE_TESTNET
    /\ DOMAIN cache = {}
    /\ data["from_currency"] = "TON"
    /\ data["rate"] = Dec(1, 0)

(***************************************************************************)
(* Failing price source (SpecOracle).                                      *)
(***************************************************************************)

\* what the /rates handler h has noted for asset a after this step
Noted(h, a) == IF cp'[h].pc = "idle" THEN shown'[a] ELSE cp'[h].d[a]

\* C10: when the refresh fails and nothing is cached, get_rate
\* returns the static rate of every asset that has one (the rates of test
\* mode, in test mode).
C10_GetRateFallsBack ==
    [][\A h \in Single :
          (/\ cmd_rates_rates(h)
           /\ source = "down"
           /\ DOMAIN cache = {}
           /\ USE_TESTNET
           /\ cp[h].from_currency \in DOMAIN test_rates)
          => Noted(h, cp[h].from_currency) = test_rates[cp[h].from_currency]]_vars

\* a step of process_amount in which validate_exchange_amount is in progress
Validation(h) ==
    \/ process_amount_rates(h)
    \/ /\ "from_currency" \in DOMAIN data
       /\ \E t \in Texts \ {NoNumber} :
             FGt(extract_number(t), FZero) /\ process_amount_begin(h, t)

\* C19 as stated: a call of validate_exchange_amount leaves the rate cache
\* (entries and expiry), the ledger and the gateway as they were, and when it
\* rejects, the conversation state and data as well.
C19_ValidateMutatesNothing ==
    [][\A h \in Single :
          Validation(h)
          => (/\ UNCHANGED <<cache, cache_expiry, exchanges, invoices, checks>>
              /\ reply' # "amount:confirm" => UNCHANGED <<fsm_state, data>>)]_vars

\* C19 amended: a call of validate_exchange_amount changes neither the
\* conversation (when it rejects) nor the ledger nor the gateway; the rate
\* cache it leaves alone only while the cache is fresh or the source fails:
\* with an empty or expired cache it asks the source, and when the source
\* answers it replaces the cache entries by the new rates and sets the
\* expiry to now + duration.
C19_ValidateRefreshesStaleCache ==
    [][\A h \in Single :
          Validation(h)
          => (/\ UNCHANGED <<exchanges, invoices, checks>>
              /\ reply' # "amount:confirm" => UNCHANGED <<fsm_state, data>>
              /\ IF cp[h].pc = "idle"
                 THEN /\ UNCHANGED <<cache, cache_expiry>>
                      /\ ~Fresh => cp'[h].pc = "process_amount:get_rate"
                 ELSE IF source = "down"
                 THEN UNCHANGED <<cache, cache_expiry>>
                 ELSE /\ cache' = parsed(RateTable(source))
                      /\ cache_expiry' = now + duration)]_vars

\* C19 witness: an amount has been refused at a rate other than the one stored
\* with the currency: the validation has replaced the expired cache
C19_Witness ==
    /\ reply \in {"amount:min", "amount:max"}
    /\ cache_expiry = now + duration
    /\ now > 1
    /\ {"rate", "from_currency"} \subseteq DOMAIN data
    /\ <<"TON", "USDT">> \in DOMAIN cache
    /\ data["from_currency"] = "TON"
    /\ data["rate"] # cache[<<"TON", "USDT">>]

(***************************************************************************)
(* The rate cache on its own (SpecRates).                                  *)
(***************************************************************************)

\* C11: get_rate for USDT to USDT returns the rate 1 at once, without calling
\* the external price source.
C11_UsdtToUsdtIsOne ==
    [][\A u \in Readers :
          get_rate_begin(u, "USDT")
          => (/\ rq' = rq
              /\ answer'.rate = Dec(1, 0)
              /\ ~answer'.fetched)]_vars

\* a get_rate call of user u returns in this step
Returns(u) ==
    \/ get_rate_resume(u) /\ rq'[u].pc = "idle"
    \/ \E c \in RateCodes : get_rate_begin(u, c) /\ rq' = rq

\* C12: no get_rate call lets a fault out: it returns a positive rate or None,
\* and a call whose source fails returns all the same, with the cache left as
\* it was.
C12_FailureStaysInOracle ==
    [][\A u \in Readers :
          /\ Returns(u)
             => (/\ ~answer'.fault
                 /\ answer'.rate = None \/ FGt(answer'.rate, FZero))
          /\ (get_rate_resume(u) /\ rq[u].pc = "fetching" /\ source = "down")
             => (/\ rq'[u].pc = "idle"
                 /\ UNCHANGED <<cache, cache_expiry>>)]_vars

\* C12 witness: a get_rate call has tried the source while it was down and
\* has returned None
C12_Witness ==
    /\ answer.fetched
    /\ ~answer.fault
    /\ answer.rate = None
    /\ source = "down"
    /\ DOMAIN cache = {}

\* C13: while the cache is fresh, get_rate answers from it, does not call the
\* source and leaves the cache alone; otherwise it calls the source first
\* and, when the source answers, looks the rate up in the new rates.
C13_FreshFromCacheElseRefresh ==
    [][\A u \in Readers :
          /\ \A c \in RateCodes :
                get_rate_begin(u, c)
                => IF Fresh
                   THEN /\ rq' = rq
                        /\ ~answer'.fetched
                        /\ answer'.rate = lookup_rate(cache, c, "USDT")
                        /\ UNCHANGED <<cache, cache_expiry>>
                   ELSE /\ rq'[u].pc = "fetching"
                        /\ rq'[u].from_currency = c
                        /\ UNCHANGED <<answer, cache, cache_expiry>>
          /\ (get_rate_resume(u) /\ source # "down")
             => (/\ answer'.fetched
                 /\ rq'[u].pc = "idle"
                 /\ cache' = parsed(RateTable(source))
                 /\ cache_expiry' = now + duration
                 /\ answer'.rate = lookup_rate(cache', rq[u].from_currency, "USDT"))]_vars

\* C13 witness: at the very instant of expiry a call has been answered from
\* the cache without calling the source
C13_Witness ==
    /\ ~answer.fetched
    /\ answer.rate = Dec(2, 0)
    /\ now = cache_expiry
    /\ DOMAIN cache # {}
    /\ rq[1].pc = "idle"

\* C26: a get_rate call whose refresh fails leaves the rates and the expiry
\* as they were, answers from the rates it had, expired or not, and leaves
\* the cache in need of a refresh, so that the next call asks the source again.
C26_FailedRefreshKeepsStaleRates ==
    [][/\ \A u \in Readers :
            (get_rate_resume(u) /\ rq[u].pc = "fetching" /\ source = "down" /\ ~Fresh)
            => (/\ answer'.fetched
                /\ cache' = cache
                /\ cache_expiry' = cache_expiry
                /\ answer'.rate = lookup_rate(cache, rq[u].from_currency, "USDT")
                /\ ~(DOMAIN cache' # {} /\ cache_expiry' # 0 /\ now' <= cache_expiry'))
       /\ \A u \in Readers, c \in RateCodes :
            (get_rate_begin(u, c) /\ ~Fresh) => rq'[u].pc = "fetching"]_vars

\* C26 witness: the source was down when an expired cache was to be
\* refreshed, and the call has returned the expired TON rate
C26_Witness ==
    /\ answer.fetched
    /\ answer.rate = Dec(2, 0)
    /\ source = "down"
    /\ cache_expiry # 0
    /\ now > cache_expiry
    /\ <<"TON", "USDT">> \in DOMAIN cache
    /\ rq[1].pc = "idle"

(***************************************************************************)
(* Choosing the currency again (SpecSwitch).                               *)
(***************************************************************************)

\* the rates the oracle or the validator can work with for currency c
RatesOf(c) ==
    ({lookup_rate(parsed(RateTable(s)), c, "USDT") : s \in Sources \ {"down"}}
        \cup {test_rates[c]}) \ {None}

\* C20: every ledger row and its invoice are for a (currency, amount) pair
\* that validation accepted: the invoice asks for the row's amount of the
\* row's currency, and the row's amount_usdt is amount * rate for a rate of
\* that currency and lies within the limits.
C20_RowsValidatedForOwnCurrency ==
    \A i \in 1..Len(exchanges) :
        /\ invoices[exchanges[i].invoice_id].asset = exchanges[i].from_currency
        /\ invoices[exchanges[i].invoice_id].amount = exchanges[i].amount
        /\ \E r \in RatesOf(exchanges[i].from_currency) :
              /\ exchanges[i].amount_usdt = FMul(exchanges[i].amount, r)
              /\ WithinLimits(FMul(exchanges[i].amount, r))

(***************************************************************************)
(* Interleaved get_rate calls (SpecReaders).                               *)
(***************************************************************************)

\* the rate sets a reader may find: the empty cache of the start, or all the
\* rates of one answer of the source
CompleteSets == {<< >>} \cup {parsed(RateTable(s)) : s \in Sources \ {"down"}}

\* C27: whenever a get_rate call of any user can run, no refresh is halfway:
\* no call is suspended between clear() and the new expiry, and the cache
\* holds either nothing that a refresh ever stored or all the rates of one
\* answer of the source, so that every lookup sees a complete rate set.
C27_ReadersSeeCompleteRates ==
    /\ \A u \in Readers : rq[u].pc # "filling"
    /\ cache \in CompleteSets
    /\ cache_expiry = 0 => DOMAIN cache = {}

\* C27 witness: while the refresh of user 1 waits for the source, user 2 has
\* been answered from the complete rates of an earlier, finished refresh
C27_Witness ==
    /\ rq[1].pc = "fetching"
    /\ rq[2].pc = "idle"
    /\ ~answer.fetched
    /\ answer.rate = Dec(2, 0)
    /\ cache = parsed(RateTable("t1"))
    /\ now <= cache_expiry

=============================================================================
